---------------------------- MODULE Spec2Model ----------------------------
(***************************************************************************)
(* A model of heudiconv/utils.py: the read-only permission toggler         *)
(* (set_readonly, is_readonly, treat_infofile), the JSON pretty printer    *)
(* (json_dumps_pretty), safe_copyfile and the TempDirs helper.             *)
(*                                                                         *)
(* The four parts are independent in the source and are checked under four *)
(* specifications (SpecPerm, SpecJson, SpecCopy, SpecTemp) over one set of *)
(* variables; a specification holds the variables of the other parts at    *)
(* their idle values.                                                      *)
(***************************************************************************)
EXTENDS Integers, Sequences, FiniteSets, TLC

VARIABLES
    fs,        \* permission part: name -> [kind, mode, to] (one directory entry each)
    content,   \* permission part: what the regular file "target" holds
    last,      \* permission part: the call that ended last
    treat,     \* permission part: the position of a running treat_infofile
    jin,       \* JSON part: the value and indent handed to json_dumps_pretty
    jout,      \* JSON part: what json_dumps_pretty gave for it
    cfs,       \* copy part: name -> [kind, data, to]
    clast,     \* copy part: the safe_copyfile call that ended last
    dirs,      \* TempDirs.dirs
    disk,      \* TempDirs part: the temporary directories that exist on disk
    scratch,   \* TempDirs part: whether /scratch/akhanf is a directory
    made,      \* TempDirs part: how many directories mkdtemp has made
    returned,  \* TempDirs part (history): every directory __call__ returned
    swept,     \* TempDirs part (history): every directory rmtree or cleanup dealt with
    tlast      \* TempDirs part: the call that ended last

vars == <<fs, content, last, treat, jin, jout, cfs, clast,
          dirs, disk, scratch, made, returned, swept, tlast>>

permVars == <<fs, content, last, treat>>
jsonVars == <<jin, jout>>
copyVars == <<cfs, clast>>
tempVars == <<dirs, disk, scratch, made, returned, swept, tlast>>

(***************************************************************************)
(* Bit arithmetic on Python's unbounded non-negative integers.             *)
(***************************************************************************)
RECURSIVE BitAnd(_, _)
BitAnd(a, b) ==
    IF a = 0 \/ b = 0 THEN 0
    ELSE (a % 2) * (b % 2) + 2 * BitAnd(a \div 2, b \div 2)

RECURSIVE BitOr(_, _)
BitOr(a, b) ==
    IF a = 0 THEN b
    ELSE IF b = 0 THEN a
    ELSE (IF a % 2 = 1 \/ b % 2 = 1 THEN 1 ELSE 0) + 2 * BitOr(a \div 2, b \div 2)

\* a & ~b for non-negative a, b
BitClear(a, b) == a - BitAnd(a, b)

\* a >> 1
ShiftRight1(a) == a \div 2

(***************************************************************************)
(* stat constants.                                                         *)
(***************************************************************************)
S_IWUSR == 128
S_IWGRP == 16
S_IWOTH == 2
S_IRUSR == 256
S_IRGRP == 32
S_IROTH == 4
\* stat.S_IMODE keeps the low twelve bits: permissions, setuid, setgid, sticky
ModeSpace == 4096
S_IFREG == 32768
S_IFDIR == 16384
S_IFLNK == 40960

ALL_CAN_WRITE == BitOr(S_IWUSR, BitOr(S_IWGRP, S_IWOTH))
ALL_CAN_READ == BitOr(S_IRUSR, BitOr(S_IRGRP, S_IROTH))

S_IMODE(st_mode) == st_mode % ModeSpace

(***************************************************************************)
(* The file system of the permission part: four names in one directory.    *)
(* "target" is a regular file or a directory, "link" a symbolic link to    *)
(* it, "dangling" a symbolic link to the name "missing", which has no      *)
(* entry.                                                                  *)
(***************************************************************************)
Names == {"target", "link", "dangling", "missing"}

\* the modes a symbolic link itself may carry: 0o777 (Linux), 0o755 (BSD, umask 022)
LinkModes == {511, 493}

\* The modes the target starts with: every combination of the nine permission
\* bits, and every combination of setuid, setgid and sticky over the modes
\* 0o000, 0o400, 0o444, 0o600, 0o644, 0o755, 0o777.
PermBits == 2 * S_IRUSR
SampleModes == {0, 256, 292, 384, 420, 493, 511}
InitModes ==
    (0 .. PermBits - 1) \cup {s * PermBits + m : s \in 1 .. 7, m \in SampleModes}

Entry(kind, mode, to) == [kind |-> kind, mode |-> mode, to |-> to]

\* os.path.lexists
Lexists(F, p) == F[p].kind # "none"

\* os.path.realpath: follows symbolic links until a name that is not one
RECURSIVE RealPath(_, _)
RealPath(F, p) == IF F[p].kind = "link" THEN RealPath(F, F[p].to) ELSE p

\* st_mode of os.lstat(p): the entry's own type and mode, links not followed
LstatMode(F, p) ==
    (CASE F[p].kind = "file" -> S_IFREG
       [] F[p].kind = "dir" -> S_IFDIR
       [] F[p].kind = "link" -> S_IFLNK
       [] OTHER -> 0) + F[p].mode


\* os.chmod(path, mode), which follows symbolic links: [ok, fs]. It fails when
\* the path leads to no file (ENOENT) or the caller may not change the mode
\* (EPERM, io = "chmod_fails").
Chmod(F, path, mode, io) ==
    LET t == RealPath(F, path) IN
    IF ~Lexists(F, t) \/ io = "chmod_fails"
    THEN [ok |-> FALSE, fs |-> F]
    ELSE [ok |-> TRUE, fs |-> [F EXCEPT ![t].mode = mode]]

\* the new_perms of set_readonly
NewPermsOwnerOnly(perms, read_only) ==
    IF read_only
    THEN BitClear(perms, S_IWUSR)
    ELSE BitOr(perms, ShiftRight1(BitAnd(perms, ALL_CAN_READ)))

NewPermsXor(perms, read_only) ==
    IF read_only
    THEN BitClear(perms, ALL_CAN_WRITE)
    ELSE LET thosecanwrite == ShiftRight1(BitAnd(perms, ALL_CAN_READ))
         IN  BitOr(perms, thosecanwrite) - BitAnd(perms, thosecanwrite)

NewPerms(perms, read_only) ==
    IF read_only
    THEN BitClear(perms, ALL_CAN_WRITE)
    ELSE LET whocanread == BitAnd(perms, ALL_CAN_READ)
             thosecanwrite == ShiftRight1(whocanread)
         IN  BitOr(perms, thosecanwrite)

\* What set_readonly gives when os.chmod raised: the exception.
ChmodFailedSwallowed(F, new_perms) ==
    [result |-> "ok", ret |-> new_perms, chmod |-> TRUE, fs |-> F]

ChmodFailed(F, new_perms) ==
    [result |-> "error", ret |-> 0, chmod |-> TRUE, fs |-> F]

\* set_readonly(path, read_only) on file system F: [result, ret, chmod, fs], with
\* chmod telling whether os.chmod was called. io is what the file system
\* answers: "ok", "lstat_fails" (os.lstat raises although the entry exists) or
\* "chmod_fails".
set_readonly(F, path, read_only, io) ==
    IF ~Lexists(F, path) \/ io = "lstat_fails"
    THEN [result |-> "error", ret |-> 0, chmod |-> FALSE, fs |-> F]
    ELSE LET perms == S_IMODE(LstatMode(F, path))
             new_perms == NewPerms(perms, read_only)
             c == Chmod(F, path, new_perms, io)
         IN  IF c.ok
             THEN [result |-> "ok", ret |-> new_perms, chmod |-> TRUE, fs |-> c.fs]
             ELSE ChmodFailed(F, new_perms)

\* is_readonly(path) on F: [result, ret]
is_readonly(F, path, io) ==
    LET real == RealPath(F, path) IN
    IF ~Lexists(F, real) \/ io = "lstat_fails"
    THEN [result |-> "error", ret |-> FALSE]
    ELSE LET perms == S_IMODE(LstatMode(F, real))
         IN  [result |-> "ok", ret |-> BitAnd(perms, ALL_CAN_WRITE) = 0]

IoAnswers == {"ok", "lstat_fails", "chmod_fails"}

NoCall ==
    [op |-> "none", path |-> "missing", read_only |-> FALSE, result |-> "ok",
     ret |-> 0, chmod |-> FALSE, io |-> "ok", repeat |-> FALSE]

NoTreat == [pc |-> "idle", filename |-> "missing", mode0 |-> 0, at |-> "none"]

\* the mode of the file a path leads to (0 when it leads to none)
ModeAt(F, path) == F[RealPath(F, path)].mode

\* One call of set_readonly as a step: the file system and the record of the call.
SetReadonlyStep(path, read_only, io) ==
    LET r == set_readonly(fs, path, read_only, io) IN
    /\ fs' = r.fs
    /\ last' = [op |-> "set_readonly", path |-> path, read_only |-> read_only,
                result |-> r.result, ret |-> r.ret, chmod |-> r.chmod, io |-> io,
                repeat |-> /\ last.op = "set_readonly"
                           /\ last.result = "ok"
                           /\ last.path = path
                           /\ last.read_only = read_only]

TreatIdle == treat.pc \in {"idle", "done", "failed"}

\* a caller's set_readonly(path, read_only)
SetReadonly ==
    \E path \in Names, read_only \in BOOLEAN, io \in IoAnswers :
        /\ TreatIdle
        /\ SetReadonlyStep(path, read_only, io)
        /\ treat' = NoTreat
        /\ UNCHANGED <<content, jsonVars, copyVars, tempVars>>

\* a caller's is_readonly(path)
IsReadonly ==
    \E path \in Names, io \in {"ok", "lstat_fails"} :
        LET r == is_readonly(fs, path, io) IN
        /\ TreatIdle
        /\ last' = [NoCall EXCEPT !.op = "is_readonly", !.path = path,
                                  !.result = r.result, !.io = io,
                                  !.ret = IF r.ret THEN 1 ELSE 0]
        /\ treat' = NoTreat
        /\ UNCHANGED <<fs, content, jsonVars, copyVars, tempVars>>

(***************************************************************************)
(* treat_infofile(filename), one step per statement that touches the file. *)
(* content is what the regular file holds: "json" (as generated), "pretty" *)
(* (rewritten) or "truncated" (opened for writing, write failed).          *)
(***************************************************************************)
Readable(F, path) == F[RealPath(F, path)].kind = "file"

\* lines 231-235: open, json.load, slim_down_info, json_dumps_pretty
TreatLoad ==
    \E filename \in Names, io \in {"ok", "open_fails"} :
        /\ TreatIdle
        /\ treat' = IF Readable(fs, filename) /\ io = "ok" /\ content # "truncated"
                    THEN [pc |-> "loaded", filename |-> filename,
                          mode0 |-> ModeAt(fs, filename), at |-> "none"]
                    ELSE [pc |-> "failed", filename |-> filename,
                          mode0 |-> ModeAt(fs, filename), at |-> "load"]
        /\ UNCHANGED <<fs, content, last, jsonVars, copyVars, tempVars>>

\* line 237: set_readonly(filename, False)
TreatMakeWritable ==
    \E io \in IoAnswers :
        /\ treat.pc = "loaded"
        /\ SetReadonlyStep(treat.filename, FALSE, io)
        /\ treat' = IF last'.result = "ok"
                    THEN [treat EXCEPT !.pc = "writable"]
                    ELSE [treat EXCEPT !.pc = "failed", !.at = "make_writable"]
        /\ UNCHANGED <<content, jsonVars, copyVars, tempVars>>

\* lines 238-239: open(filename, 'wt') truncates, fp.write writes
TreatWrite ==
    \E io \in {"ok", "open_fails", "write_fails"} :
        /\ treat.pc = "writable"
        /\ content' = CASE io = "ok" -> "pretty"
                        [] io = "write_fails" -> "truncated"
                        [] OTHER -> content
        /\ treat' = IF io = "ok"
                    THEN [treat EXCEPT !.pc = "written"]
                    ELSE [treat EXCEPT !.pc = "failed", !.at = "write"]
        /\ UNCHANGED <<fs, last, jsonVars, copyVars, tempVars>>

\* line 240: set_readonly(filename)
TreatMakeReadonly ==
    \E io \in IoAnswers :
        /\ treat.pc = "written"
        /\ SetReadonlyStep(treat.filename, TRUE, io)
        /\ treat' = IF last'.result = "ok"
                    THEN [treat EXCEPT !.pc = "done"]
                    ELSE [treat EXCEPT !.pc = "failed", !.at = "make_readonly"]
        /\ UNCHANGED <<content, jsonVars, copyVars, tempVars>>

(***************************************************************************)
(* The idle values of each part's variables.                               *)
(***************************************************************************)
IdlePerm ==
    /\ fs = [n \in Names |-> Entry("none", 0, n)]
    /\ content = "json"
    /\ last = NoCall
    /\ treat = NoTreat

IdleJson ==
    /\ jin = <<>>
    /\ jout = <<>>

IdleCopy ==
    /\ cfs = <<>>
    /\ clast = <<>>

IdleTemp ==
    /\ dirs = <<>>
    /\ disk = {}
    /\ scratch = FALSE
    /\ made = 0
    /\ returned = {}
    /\ swept = {}
    /\ tlast = <<>>

(***************************************************************************)
(* The permission part.                                                    *)
(***************************************************************************)
InitPerm ==
    /\ \E kind \in {"file", "dir"}, mode \in InitModes, lmode \in LinkModes :
           /\ kind = "dir" => mode \in SampleModes
           /\ fs = [n \in Names |->
                    CASE n = "target" -> Entry(kind, mode, n)
                      [] n = "link" -> Entry("link", lmode, "target")
                      [] n = "dangling" -> Entry("link", lmode, "missing")
                      [] OTHER -> Entry("none", 0, n)]
    /\ content = "json"
    /\ last = NoCall
    /\ treat = NoTreat
    /\ IdleJson /\ IdleCopy /\ IdleTemp

NextPerm ==
    \/ SetReadonly
    \/ IsReadonly

SpecPerm == InitPerm /\ [][NextPerm]_vars

\* treat_infofile alone, called again and again
NextTreat ==
    \/ TreatLoad
    \/ TreatMakeWritable
    \/ TreatWrite
    \/ TreatMakeReadonly

SpecTreat == InitPerm /\ [][NextTreat]_vars

(***************************************************************************)
(* Properties of the permission part.                                      *)
(***************************************************************************)
HasBit(mode, bit) == BitAnd(mode, bit) # 0

\* the (read bit, write bit) of owner, group and other
Classes == {<<S_IRUSR, S_IWUSR>>, <<S_IRGRP, S_IWGRP>>, <<S_IROTH, S_IWOTH>>}

\* C1: after set_readonly(path, True) has returned, is_readonly(path) returns
\* True, for a regular file, a directory and a symbolic link to one.
C1_ReadOnlyAfterSet ==
    (last.op = "set_readonly" /\ last.read_only /\ last.result = "ok")
        => is_readonly(fs, last.path, "ok") = [result |-> "ok", ret |-> TRUE]

\* set_readonly(link, True) has returned, and the link's own mode has write bits
C1_Witness ==
    /\ last.op = "set_readonly" /\ last.read_only /\ last.result = "ok"
    /\ last.path = "link"
    /\ HasBit(fs["link"].mode, ALL_CAN_WRITE)
    /\ fs["target"].kind = "dir"

\* C2: set_readonly(path, False) sets the write bit of a class, on the file
\* whose mode it changes, if and only if that class had its read bit or its
\* write bit set before the call.
C2_WriteOnlyWhereRead ==
    [][(last'.op = "set_readonly" /\ ~last'.read_only /\ last'.result = "ok")
          => LET t == RealPath(fs, last'.path) IN
             \A c \in Classes :
                 HasBit(fs'[t].mode, c[2])
                     <=> (HasBit(fs[t].mode, c[1]) \/ HasBit(fs[t].mode, c[2]))]_vars

\* C3: no call of set_readonly or is_readonly changes a bit other than the
\* three write bits, on any file.
C3_OnlyWriteBitsChange ==
    [][\A n \in Names :
          BitClear(fs'[n].mode, ALL_CAN_WRITE) = BitClear(fs[n].mode, ALL_CAN_WRITE)]_vars

\* C5: a set_readonly call that repeats the call before it (same path, same
\* read_only, the first one returned) changes no mode, and returns what the
\* first one returned.
C5_Idempotent ==
    [][(last'.op = "set_readonly" /\ last'.repeat)
          => /\ fs' = fs
             /\ last'.result = "ok" => last'.ret = last.ret]_vars

\* set_readonly(path, False) has returned twice in a row and the file is writable
C5_Witness ==
    /\ last.op = "set_readonly" /\ last.repeat /\ last.result = "ok"
    /\ ~last.read_only
    /\ HasBit(ModeAt(fs, last.path), ALL_CAN_WRITE)

\* C6: set_readonly fails before os.chmod is called when the path does not
\* exist or os.lstat fails; a failed call changes no mode; a call that returns
\* a mode has called os.chmod and the file has that mode.
C6_FailureIsReported ==
    [][last'.op = "set_readonly"
          => /\ (~Lexists(fs, last'.path) \/ last'.io = "lstat_fails")
                    => (last'.result = "error" /\ ~last'.chmod)
             /\ last'.result = "error" => fs' = fs
             /\ last'.result = "ok"
                    => (last'.chmod /\ ModeAt(fs', last'.path) = last'.ret)]_vars

\* os.chmod was called and raised, for a file whose mode the call would change
C6_Witness ==
    /\ last.op = "set_readonly" /\ last.result = "error" /\ last.chmod
    /\ last.io = "chmod_fails"
    /\ last.read_only
    /\ HasBit(ModeAt(fs, last.path), ALL_CAN_WRITE)

\* C9: treat_infofile writes the content only after set_readonly(filename,
\* False) has returned and before set_readonly(filename); when it completes the
\* file has no write bit and the other bits it had before the call; when the
\* rewrite fails the file keeps the mode set_readonly(filename, False) gave it.
C9_TreatOrderAndModes ==
    /\ treat.pc \in {"writable", "written"}
           => /\ last.op = "set_readonly" /\ ~last.read_only /\ last.result = "ok"
              /\ last.path = treat.filename
    /\ treat.pc = "written" => content = "pretty"
    /\ treat.pc = "done"
           => /\ ~HasBit(ModeAt(fs, treat.filename), ALL_CAN_WRITE)
              /\ BitClear(ModeAt(fs, treat.filename), ALL_CAN_WRITE)
                     = BitClear(treat.mode0, ALL_CAN_WRITE)
    /\ (treat.pc = "failed" /\ treat.at = "write")
           => /\ last.op = "set_readonly" /\ ~last.read_only
              /\ ModeAt(fs, treat.filename) = last.ret

(***************************************************************************)
(* The JSON part.  A text is a sequence of one-character strings.  A JSON  *)
(* value is a record [t, n, s, kids]: t is its type, n the integer of a    *)
(* number, s the characters of a string (or of an object member's key),    *)
(* kids the elements of an array, the members of an object (in the dict's  *)
(* insertion order) or the one value of a member.                          *)
(***************************************************************************)
JNum(n) == [t |-> "num", n |-> n, s |-> <<>>, kids |-> <<>>]
JStr(s) == [t |-> "str", n |-> 0, s |-> s, kids |-> <<>>]
JLit(name) == [t |-> name, n |-> 0, s |-> <<>>, kids |-> <<>>]
JArr(kids) == [t |-> "arr", n |-> 0, s |-> <<>>, kids |-> kids]
JObj(members) == [t |-> "obj", n |-> 0, s |-> <<>>, kids |-> members]
JMem(key, value) == [t |-> "mem", n |-> 0, s |-> key, kids |-> <<value>>]

QUOTE == "\""
BACKSLASH == "\\"
NEWLINE == "\n"
SPACE == " "

DigitChars == <<"0", "1", "2", "3", "4", "5", "6", "7", "8", "9">>

\* the code point of a character, for the characters the model uses
Ord(c) ==
    CASE c = NEWLINE -> 10
      [] c = SPACE -> 32
      [] c = QUOTE -> 34
      [] c = "+" -> 43
      [] c = "," -> 44
      [] c = "-" -> 45
      [] c = "." -> 46
      [] c \in {DigitChars[k] : k \in 1 .. 10}
            -> 47 + (CHOOSE k \in 1 .. 10 : DigitChars[k] = c)
      [] c = ":" -> 58
      [] c = "[" -> 91
      [] c = BACKSLASH -> 92
      [] c = "]" -> 93
      [] c = "a" -> 97
      [] c = "b" -> 98
      [] c = "e" -> 101
      [] c = "x" -> 120
      [] OTHER -> 127

\* str < str of Python: by code points, a proper prefix first
RECURSIVE TextLess(_, _)
TextLess(a, b) ==
    IF b = <<>> THEN FALSE
    ELSE IF a = <<>> THEN TRUE
    ELSE IF Head(a) # Head(b) THEN Ord(Head(a)) < Ord(Head(b))
    ELSE TextLess(Tail(a), Tail(b))

RECURSIVE Spaces(_)
Spaces(k) == IF k <= 0 THEN <<>> ELSE <<SPACE>> \o Spaces(k - 1)

RECURSIVE NatText(_)
NatText(n) ==
    IF n < 10 THEN <<DigitChars[n + 1]>>
    ELSE NatText(n \div 10) \o <<DigitChars[(n % 10) + 1]>>

\* int.__repr__
IntText(n) == IF n < 0 THEN <<"-">> \o NatText(-n) ELSE NatText(n)

\* json.encoder's escaping of a string's characters
RECURSIVE Escape(_)
Escape(s) ==
    IF s = <<>> THEN <<>>
    ELSE (CASE Head(s) = QUOTE -> <<BACKSLASH, QUOTE>>
            [] Head(s) = BACKSLASH -> <<BACKSLASH, BACKSLASH>>
            [] Head(s) = NEWLINE -> <<BACKSLASH, "n">>
            [] OTHER -> <<Head(s)>>) \o Escape(Tail(s))

\* sorted(dct.items()): insertion sort of members by key
RECURSIVE InsertMember(_, _)
InsertMember(m, sorted) ==
    IF sorted = <<>> THEN <<m>>
    ELSE IF TextLess(m.s, Head(sorted).s) THEN <<m>> \o sorted
    ELSE <<Head(sorted)>> \o InsertMember(m, Tail(sorted))

RECURSIVE SortMembers(_)
SortMembers(ms) ==
    IF ms = <<>> THEN <<>> ELSE InsertMember(Head(ms), SortMembers(Tail(ms)))

\* indent = None of Python; an int below 0 indents like 0
NoIndent == -1

\* json.dumps(v, indent=indent, sort_keys=sort_keys) of Python 3, at nesting
\* depth level: with an indent every element and member starts a line, the
\* items are separated by "," and the closing bracket has a line of its own;
\* without one the items are separated by ", ".
RECURSIVE Dumps(_, _, _, _), DumpItems(_, _, _, _, _)
DumpItems(items, indent, sort_keys, level, sep) ==
    IF items = <<>> THEN <<>>
    ELSE Dumps(Head(items), indent, sort_keys, level)
            \o (IF Len(items) > 1 THEN sep ELSE <<>>)
            \o DumpItems(Tail(items), indent, sort_keys, level, sep)

Dumps(v, indent, sort_keys, level) ==
    LET nl(l) == IF indent = NoIndent THEN <<>> ELSE <<NEWLINE>> \o Spaces(indent * l)
        sep == IF indent = NoIndent THEN <<",", SPACE>> ELSE <<",">> \o nl(level + 1)
    IN  CASE v.t = "num" -> IntText(v.n)
          [] v.t = "str" -> <<QUOTE>> \o Escape(v.s) \o <<QUOTE>>
          [] v.t = "true" -> <<"t", "r", "u", "e">>
          [] v.t = "false" -> <<"f", "a", "l", "s", "e">>
          [] v.t = "null" -> <<"n", "u", "l", "l">>
          [] v.t = "mem" -> <<QUOTE>> \o Escape(v.s) \o <<QUOTE, ":", SPACE>>
                                \o Dumps(v.kids[1], indent, sort_keys, level)
          [] v.t = "arr" ->
                IF v.kids = <<>> THEN <<"[", "]">>
                ELSE <<"[">> \o nl(level + 1)
                        \o DumpItems(v.kids, indent, sort_keys, level + 1, sep)
                        \o nl(level) \o <<"]">>
          [] v.t = "obj" ->
                IF v.kids = <<>> THEN <<"{", "}">>
                ELSE <<"{">> \o nl(level + 1)
                        \o DumpItems(IF sort_keys THEN SortMembers(v.kids) ELSE v.kids,
                                     indent, sort_keys, level + 1, sep)
                        \o nl(level) \o <<"}">>

Min(S) == CHOOSE x \in S : \A y \in S : x <= y

\* the one element of a one-element set; {e(x) : x \in {v}} evaluates v once
Only(S) == CHOOSE x \in S : TRUE

\* str.replace(old, new) for a non-empty old, from index i on: the leftmost
\* occurrence is replaced and the scan goes on behind it
RECURSIVE ReplaceFrom(_, _, _, _)
ReplaceFrom(s, old, new, i) ==
    LET hits == {j \in i .. Len(s) - Len(old) + 1 : SubSeq(s, j, j + Len(old) - 1) = old}
    IN  IF hits = {} THEN SubSeq(s, i, Len(s))
        ELSE Only({SubSeq(s, i, h - 1) \o new \o ReplaceFrom(s, old, new, h + Len(old)) :
                   h \in {Min(hits)}})

Replace(s, old, new) == ReplaceFrom(s, old, new, 1)

\* _canonical_dumps(json_obj, indent=indent, sort_keys=sort_keys)
_canonical_dumps(json_obj, indent, sort_keys) ==
    Only({Replace(out, <<SPACE, NEWLINE>>, <<NEWLINE>>) :
          out \in {Dumps(json_obj, indent, sort_keys, 0)}})

(***************************************************************************)
(* The four re.sub calls of json_dumps_pretty.  Each pattern is matched as *)
(* Python's backtracking matcher does: at the leftmost position where it   *)
(* matches, every repetition as long as it can be (in these patterns a     *)
(* shorter repetition never lets the rest match), and the scan goes on     *)
(* behind the match.                                                       *)
(***************************************************************************)
\* the character class [-+.0-9e]
NumChars == {"-", "+", ".", "e"} \cup {DigitChars[k] : k \in 1 .. 10}

At(s, i) == IF i >= 1 /\ i <= Len(s) THEN s[i] ELSE ""

\* the first index from i on whose character is not in chars (Len(s) + 1 if none)
RECURSIVE RunEnd(_, _, _)
RunEnd(s, i, chars) ==
    IF i <= Len(s) /\ s[i] \in chars THEN RunEnd(s, i + 1, chars) ELSE i

\* "?[-+.0-9e]+"?  from i: [ok, end], end the index behind it
QuotedNumber(s, i) ==
    LET q1 == IF At(s, i) = QUOTE THEN i + 1 ELSE i
        n == RunEnd(s, q1, NumChars)
        q2 == IF At(s, n) = QUOTE THEN n + 1 ELSE n
    IN  [ok |-> n > q1, end |-> q2]

NoMatch == [ok |-> FALSE, at |-> 0, from |-> 0, to |-> 0, end |-> 0]

\* [\n ]+("?[-+.0-9e]+"?,?) *\n(?= *"?[-+.0-9e]+"?)  at i: the group is
\* s[from .. to], end the index behind the match
Match1(s, i) ==
    LET a == RunEnd(s, i, {NEWLINE, SPACE})
        g == QuotedNumber(s, a)
        c == IF At(s, g.end) = "," THEN g.end + 1 ELSE g.end
        sp == RunEnd(s, c, {SPACE})
        la == QuotedNumber(s, RunEnd(s, sp + 1, {SPACE}))
    IN  IF a > i /\ g.ok /\ At(s, sp) = NEWLINE /\ la.ok
        THEN [ok |-> TRUE, at |-> i, from |-> a, to |-> c - 1, end |-> sp + 1]
        ELSE NoMatch

\*  *\]  at i
Match2(s, i) ==
    LET sp == RunEnd(s, i, {SPACE})
    IN  IF At(s, sp) = "]"
        THEN [ok |-> TRUE, at |-> i, from |-> sp, to |-> sp, end |-> sp + 1]
        ELSE NoMatch

\*   *("?[-+.0-9e]+"?)[ \n]*  (two spaces, the second starred) at i
Match3(s, i) ==
    LET sp == RunEnd(s, i, {SPACE})
        g == QuotedNumber(s, sp)
    IN  IF sp > i /\ g.ok
        THEN [ok |-> TRUE, at |-> i, from |-> sp, to |-> g.end - 1,
              end |-> RunEnd(s, g.end, {SPACE, NEWLINE})]
        ELSE NoMatch

\* \[ followed by a space, at i; the replacement keeps the bracket
Match4(s, i) ==
    IF At(s, i) = "[" /\ At(s, i + 1) = SPACE
    THEN [ok |-> TRUE, at |-> i, from |-> i, to |-> i, end |-> i + 2]
    ELSE NoMatch

Match(k, s, i) ==
    CASE k = 1 -> Match1(s, i)
      [] k = 2 -> Match2(s, i)
      [] k = 3 -> Match3(s, i)
      [] OTHER -> Match4(s, i)

\* the leftmost match of pattern k from index i on
NextMatch(k, s, i) ==
    LET hits == {j \in i .. Len(s) : Match(k, s, j).ok}
    IN  IF hits = {} THEN NoMatch ELSE Match(k, s, Min(hits))

\* re.sub(pattern k, prefix + group, s) from index i on: the text up to the
\* leftmost match is kept, the match replaced, and the scan goes on behind it
RECURSIVE Sub(_, _, _)
Sub(k, s, i) ==
    Only({IF ~m.ok THEN SubSeq(s, i, Len(s))
          ELSE SubSeq(s, i, m.at - 1)
                  \o (IF k \in {1, 3} THEN <<SPACE>> ELSE <<>>)
                  \o SubSeq(s, m.from, m.to)
                  \o Sub(k, s, m.end) :
          m \in {NextMatch(k, s, i)}})

\* lines 211-221: the text json_dumps_pretty builds, js and the three
\* intermediate js_ of the source
PrettyText(j, indent, sort_keys) ==
    Only({Sub(4, js3, 1) :
          js3 \in {Sub(3, js2, 1) :
          js2 \in {Sub(2, js1, 1) :
          js1 \in {Sub(1, js, 1) :
          js \in {_canonical_dumps(j, indent, sort_keys)}}}}})

(***************************************************************************)
(* json.loads: a recursive-descent reading of a text.  A result is         *)
(* [ok, v, next]: whether a value was read, the value, and the index       *)
(* behind it.  Numbers are read as integers; a fraction or an exponent,    *)
(* which no text of the model holds, makes the reading fail.               *)
(***************************************************************************)
Digits == {DigitChars[k] : k \in 1 .. 10}
DigitVal(c) == (CHOOSE k \in 1 .. 10 : DigitChars[k] = c) - 1

ParseFail == [ok |-> FALSE, v |-> JLit("null"), next |-> 0]
Parsed(v, next) == [ok |-> TRUE, v |-> v, next |-> next]

\* json.decoder.WHITESPACE, for the whitespace the model's texts hold
SkipWs(s, i) == RunEnd(s, i, {SPACE, NEWLINE})

RECURSIVE TextNat(_)
TextNat(ds) ==
    IF ds = <<>> THEN 0 ELSE 10 * TextNat(SubSeq(ds, 1, Len(ds) - 1)) + DigitVal(ds[Len(ds)])

\* -?(0|[1-9][0-9]*) at i
ParseNumber(s, i) ==
    LET d0 == IF At(s, i) = "-" THEN i + 1 ELSE i
        e == IF At(s, d0) = "0" THEN d0 + 1 ELSE RunEnd(s, d0, Digits)
        n == TextNat(SubSeq(s, d0, e - 1))
    IN  IF e = d0 \/ At(s, e) \in {".", "e", "E"} THEN ParseFail
        ELSE Parsed(JNum(IF d0 > i THEN -n ELSE n), e)

\* the characters of a string from i (behind the opening quote) to its closing
\* quote, escapes undone; a raw line break ends the reading (strict mode)
RECURSIVE ScanString(_, _, _)
ScanString(s, i, acc) ==
    LET c == At(s, i)
        esc == At(s, i + 1)
    IN  CASE c = QUOTE -> Parsed(JStr(acc), i + 1)
          [] c = "" \/ c = NEWLINE -> ParseFail
          [] c = BACKSLASH ->
                (CASE esc = QUOTE -> ScanString(s, i + 2, Append(acc, QUOTE))
                   [] esc = BACKSLASH -> ScanString(s, i + 2, Append(acc, BACKSLASH))
                   [] esc = "n" -> ScanString(s, i + 2, Append(acc, NEWLINE))
                   [] OTHER -> ParseFail)
          [] OTHER -> ScanString(s, i + 1, Append(acc, c))

\* dict[key] = value: a key read again keeps its place and takes the new value
PutMember(members, key, value) ==
    IF \E k \in 1 .. Len(members) : members[k].s = key
    THEN [k \in 1 .. Len(members) |->
             IF members[k].s = key THEN JMem(key, value) ELSE members[k]]
    ELSE Append(members, JMem(key, value))

IsWord(s, i, word) == SubSeq(s, i, i + Len(word) - 1) = word

RECURSIVE ParseValue(_, _), ParseItems(_, _, _), ParseMembers(_, _, _)
ParseValue(s, i) ==
    LET c == At(s, i) IN
    CASE c = QUOTE -> ScanString(s, i + 1, <<>>)
      [] c = "[" ->
            IF At(s, SkipWs(s, i + 1)) = "]"
            THEN Parsed(JArr(<<>>), SkipWs(s, i + 1) + 1)
            ELSE ParseItems(s, SkipWs(s, i + 1), <<>>)
      [] c = "{" ->
            IF At(s, SkipWs(s, i + 1)) = "}"
            THEN Parsed(JObj(<<>>), SkipWs(s, i + 1) + 1)
            ELSE ParseMembers(s, SkipWs(s, i + 1), <<>>)
      [] c = "n" /\ IsWord(s, i, <<"n", "u", "l", "l">>) -> Parsed(JLit("null"), i + 4)
      [] c = "t" /\ IsWord(s, i, <<"t", "r", "u", "e">>) -> Parsed(JLit("true"), i + 4)
      [] c = "f" /\ IsWord(s, i, <<"f", "a", "l", "s", "e">>) -> Parsed(JLit("false"), i + 5)
      [] c = "-" \/ c \in Digits -> ParseNumber(s, i)
      [] OTHER -> ParseFail

\* the elements of an array from i (at an element) to the closing bracket
ParseItems(s, i, acc) ==
    Only({IF ~v.ok THEN ParseFail
          ELSE Only({CASE At(s, k) = "," ->
                            ParseItems(s, SkipWs(s, k + 1), Append(acc, v.v))
                       [] At(s, k) = "]" -> Parsed(JArr(Append(acc, v.v)), k + 1)
                       [] OTHER -> ParseFail :
                     k \in {SkipWs(s, v.next)}}) :
          v \in {ParseValue(s, i)}})

\* the members of an object from i (at a key) to the closing brace
ParseMembers(s, i, acc) ==
    Only({IF ~key.ok \/ At(s, SkipWs(s, key.next)) # ":" THEN ParseFail
          ELSE Only({IF ~v.ok THEN ParseFail
                     ELSE Only({CASE At(s, k) = "," ->
                                       ParseMembers(s, SkipWs(s, k + 1), members)
                                  [] At(s, k) = "}" -> Parsed(JObj(members), k + 1)
                                  [] OTHER -> ParseFail :
                                k \in {SkipWs(s, v.next)},
                                members \in {PutMember(acc, key.v.s, v.v)}}) :
                     v \in {ParseValue(s, SkipWs(s, SkipWs(s, key.next) + 1))}}) :
          key \in {IF At(s, i) = QUOTE THEN ScanString(s, i + 1, <<>>) ELSE ParseFail}})

\* json.loads(s): one value, whitespace around it, nothing behind it
loads(s) ==
    Only({IF v.ok /\ SkipWs(s, v.next) = Len(s) + 1 THEN v ELSE ParseFail :
          v \in {ParseValue(s, SkipWs(s, 1))}})

\* == of two decoded values: arrays element by element, objects as mappings of
\* keys to values whatever the order of the keys
RECURSIVE DeepEqual(_, _)
DeepEqual(a, b) ==
    /\ a.t = b.t
    /\ a.n = b.n
    /\ a.t \in {"str", "mem"} => a.s = b.s
    /\ Len(a.kids) = Len(b.kids)
    /\ IF a.t = "obj"
       THEN \A k \in 1 .. Len(a.kids) :
               \E l \in 1 .. Len(b.kids) :
                   a.kids[k].s = b.kids[l].s /\ DeepEqual(a.kids[k], b.kids[l])
       ELSE \A k \in 1 .. Len(a.kids) : DeepEqual(a.kids[k], b.kids[k])

\* json_dumps_pretty(j, indent, sort_keys): [result, text]; json.loads(js_)
\* of line 222 raises when js_ is no JSON text, and its value is not compared
\* with j (the assert of line 224 is a comment)
json_dumps_pretty(j, indent, sort_keys) ==
    Only({IF loads(js_).ok THEN [result |-> "ok", text |-> js_]
          ELSE [result |-> "error", text |-> <<>>] :
          js_ \in {PrettyText(j, indent, sort_keys)}})

\* whether the text json_dumps_pretty returns reads back as j
RoundTrips(j, indent) ==
    LET r == json_dumps_pretty(j, indent, TRUE)
    IN  r.result = "ok" /\ DeepEqual(loads(r.text).v, j)

(***************************************************************************)
(* The values json_dumps_pretty is applied to: a payload (a scalar, an     *)
(* array of numbers, a two-element array of scalars) alone or inside       *)
(* arrays and objects.                                                     *)
(***************************************************************************)
MaxStrLen == 2
MaxArrayLen == 3
MaxIndent == 2

StrChars == {"a", "e", "1", SPACE, "]", "[", NEWLINE, QUOTE}
Numbers == {1, -2, 10}

SeqsUpTo(S, n) == UNION {[1 .. k -> S] : k \in 0 .. n}

Texts == SeqsUpTo(StrChars, MaxStrLen)
NumberArrays == {JArr(a) : a \in SeqsUpTo({JNum(n) : n \in Numbers}, MaxArrayLen)}
SomeScalars == {JNum(1), JStr(<<"x">>), JStr(<<"1">>), JLit("true"), JLit("null")}

Payloads ==
    {JStr(t) : t \in Texts}
        \cup {JNum(n) : n \in Numbers}
        \cup {JLit("true"), JLit("false"), JLit("null")}
        \cup NumberArrays
        \cup {JArr(<<a, b>>) : a, b \in SomeScalars}

Wrappers == 1 .. 6

Wrap(w, p) ==
    CASE w = 1 -> p
      [] w = 2 -> JArr(<<p>>)
      [] w = 3 -> JObj(<<JMem(<<"a">>, p)>>)
      [] w = 4 -> JObj(<<JMem(<<"b">>, JStr(<<"x">>)), JMem(<<"a">>, p)>>)
      [] w = 5 -> JObj(<<JMem(<<"a">>, JObj(<<JMem(<<"e">>, p)>>))>>)
      [] OTHER -> JArr(<<JArr(<<p, JNum(1)>>), p>>)

Indents == {NoIndent} \cup (0 .. MaxIndent)

NoOutput == [result |-> "none", text |-> <<>>]

InitJson ==
    /\ \E p \in Payloads, w \in Wrappers, indent \in Indents :
           jin = [j |-> Wrap(w, p), indent |-> indent]
    /\ jout = NoOutput
    /\ IdlePerm /\ IdleCopy /\ IdleTemp

\* json_dumps_pretty(j, indent=indent), sort_keys at its default True
JsonDumpsPretty ==
    /\ jout = NoOutput
    /\ jout' = json_dumps_pretty(jin.j, jin.indent, TRUE)
    /\ UNCHANGED <<jin, permVars, copyVars, tempVars>>

NextJson == JsonDumpsPretty

SpecJson == InitJson /\ [][NextJson]_vars

(***************************************************************************)
(* Properties of the JSON part.                                            *)
(***************************************************************************)
\* C4: for every value and indent, the text json_dumps_pretty returns reads
\* back as a value deep-equal to the one it was given.
C4_RoundTrip ==
    jout # NoOutput
        => /\ jout.result = "ok"
           /\ DeepEqual(loads(jout.text).v, jin.j)

\* the non-empty arrays in v whose elements are all numbers
RECURSIVE NumberArraysIn(_)
NumberArraysIn(v) ==
    (IF v.t = "arr" /\ v.kids # <<>> /\ \A k \in 1 .. Len(v.kids) : v.kids[k].t = "num"
     THEN {v} ELSE {})
        \cup UNION {NumberArraysIn(v.kids[k]) : k \in 1 .. Len(v.kids)}

\* an array of numbers on one line: "[", the numbers separated by ", ", "]"
OneLine(a) == <<"[">> \o DumpItems(a.kids, NoIndent, TRUE, 0, <<",", SPACE>>) \o <<"]">>

Contains(s, part) ==
    \E i \in 1 .. Len(s) - Len(part) + 1 : SubSeq(s, i, i + Len(part) - 1) = part

\* C8: every flat array of numbers, of any length from 1 on and at any depth,
\* is rendered on one line as [n1, n2, ...]; with an indent the member
\* "b": "x" beside it keeps a line of its own, indented.
C8_NumberArraysOnOneLine ==
    jout # NoOutput
        => /\ \A a \in NumberArraysIn(jin.j) : Contains(jout.text, OneLine(a))
           /\ (jin.indent # NoIndent /\ jin.j.t = "obj" /\ Len(jin.j.kids) = 2)
                  => Contains(jout.text,
                              <<NEWLINE>> \o Spaces(jin.indent)
                                  \o <<QUOTE, "b", QUOTE, ":", SPACE, QUOTE, "x", QUOTE>>)

(***************************************************************************)
(* The copy part: safe_copyfile on a directory that holds the file "src",  *)
(* the name "dest" (absent, a file, a symbolic link) and the directory     *)
(* "destdir", in which the name "src" may exist.  An entry is              *)
(* [kind, data, to]: data is a file's content, to a link's target.         *)
(***************************************************************************)
CopyNames == {"src", "nosrc", "dest", "destdir", "destdir/src", "destdir/nosrc"}
Contents == {"A", "B", "C"}

CEntry(kind, data, to) == [kind |-> kind, data |-> data, to |-> to]
Absent == CEntry("none", "", "")

\* op.lexists
CLexists(F, p) == F[p].kind # "none"

\* the name a path leads to when symbolic links are followed
RECURSIVE CRealPath(_, _)
CRealPath(F, p) == IF F[p].kind = "link" THEN CRealPath(F, F[p].to) ELSE p

\* op.isdir, which follows symbolic links
IsDir(F, p) == F[CRealPath(F, p)].kind = "dir"

\* op.basename
Basename(p) ==
    CASE p = "destdir/src" -> "src"
      [] p = "destdir/nosrc" -> "nosrc"
      [] OTHER -> p

\* the entry op.join(d, name) names, for d a path to the directory "destdir"
Join(d, name) == IF name = "src" THEN "destdir/src" ELSE "destdir/nosrc"

\* the destination name of safe_copyfile(src, dest): lines 277-278
DestName(F, src, dest) ==
    IF IsDir(F, dest) THEN Join(dest, Basename(src)) ELSE dest

\* os.unlink(p): [ok, fs]; a directory cannot be unlinked
Unlink(F, p) ==
    IF F[p].kind \in {"none", "dir"} THEN [ok |-> FALSE, fs |-> F]
    ELSE [ok |-> TRUE, fs |-> [F EXCEPT ![p] = Absent]]

\* shutil.copyfile(src, dest): [ok, fs]; both paths are followed, the source
\* must be a regular file, a directory cannot be written, a file is not copied
\* onto itself
CopyFile(F, src, dest) ==
    LET from == CRealPath(F, src)
        onto == CRealPath(F, dest)
    IN  IF F[from].kind # "file" \/ F[onto].kind = "dir" \/ from = onto
        THEN [ok |-> FALSE, fs |-> F]
        ELSE [ok |-> TRUE, fs |-> [F EXCEPT ![onto] = CEntry("file", F[from].data, "")]]

\* safe_copyfile(src, dest): [result, fs]
safe_copyfile(F, src, dest) ==
    LET d == DestName(F, src, dest)
        u == IF CLexists(F, d) THEN Unlink(F, d) ELSE [ok |-> TRUE, fs |-> F]
        c == CopyFile(u.fs, src, d)
    IN  IF ~u.ok THEN [result |-> "error", fs |-> F]
        ELSE IF ~c.ok THEN [result |-> "error", fs |-> u.fs]
        ELSE [result |-> "ok", fs |-> c.fs]

NoCopy == [op |-> "none", src |-> "src", dest |-> "dest", result |-> "ok"]

InitCopy ==
    /\ \E data \in Contents,
          dest \in {Absent, CEntry("link", "", "src"), CEntry("link", "", "nosrc"),
                    CEntry("link", "", "destdir")}
                      \cup {CEntry("file", c, "") : c \in Contents},
          inner \in {Absent, CEntry("dir", "", "")}
                      \cup {CEntry("file", c, "") : c \in Contents} :
           cfs = [n \in CopyNames |->
                     CASE n = "src" -> CEntry("file", data, "")
                       [] n = "dest" -> dest
                       [] n = "destdir" -> CEntry("dir", "", "")
                       [] n = "destdir/src" -> inner
                       [] OTHER -> Absent]
    /\ clast = NoCopy
    /\ IdlePerm /\ IdleJson /\ IdleTemp

\* a caller's safe_copyfile(src, dest)
SafeCopyfile ==
    \E src \in {"src", "nosrc"}, dest \in {"dest", "destdir"} :
        LET r == safe_copyfile(cfs, src, dest) IN
        /\ cfs' = r.fs
        /\ clast' = [op |-> "safe_copyfile", src |-> src, dest |-> dest,
                     result |-> r.result]
        /\ UNCHANGED <<permVars, jsonVars, tempVars>>

NextCopy == SafeCopyfile

SpecCopy == InitCopy /\ [][NextCopy]_vars

\* C7: safe_copyfile fails, and leaves the entry at the destination name as it
\* was, whenever that name exists (dest, or dest/basename(src) when dest is a
\* directory); it returns only when the name did not exist, and then the name
\* holds a copy of src.
C7_BlowsIfDestinationExists ==
    [][clast'.op = "safe_copyfile"
          => LET d == DestName(cfs, clast'.src, clast'.dest) IN
             /\ CLexists(cfs, d) => (clast'.result = "error" /\ cfs'[d] = cfs[d])
             /\ clast'.result = "ok"
                    => (~CLexists(cfs, d)
                        /\ cfs'[d] = CEntry("file", cfs[CRealPath(cfs, clast'.src)].data, ""))]_vars

(***************************************************************************)
(* The TempDirs part.  A directory name is [dir, id]: the directory        *)
(* mkdtemp made it in and the number that stands for mkdtemp's random      *)
(* suffix, which mkdtemp never gives twice.  disk is the set of those      *)
(* directories that exist; anyone may delete one of them at any time.      *)
(***************************************************************************)
MaxDirs == 3

cctmp == "/scratch/akhanf"
DefaultTmp == "/tmp"

TempName(dir, id) == [dir |-> dir, id |-> id]

\* a directory that TempDirs never made
Foreign == TempName(DefaultTmp, 0)

SeqSet(q) == {q[k] : k \in 1 .. Len(q)}

\* list.remove(x): the first occurrence goes
RECURSIVE ListRemove(_, _)
ListRemove(q, x) ==
    IF q = <<>> THEN <<>>
    ELSE IF Head(q) = x THEN Tail(q)
    ELSE <<Head(q)>> \o ListRemove(Tail(q), x)

\* TempDirs.rmtree(tmpdir) on T = [dirs, disk, ok, done]: with fails, the
\* directories shutil.rmtree cannot remove, the call raises before the list
\* is touched.  done collects the directories a call returned for.
rmtreeRemoveOnlyIfExists(T, tmpdir, fails) ==
    IF ~T.ok THEN T
    ELSE IF tmpdir \in T.disk /\ tmpdir \in fails THEN [T EXCEPT !.ok = FALSE]
    ELSE IF tmpdir \in T.disk
         THEN [T EXCEPT !.disk = T.disk \ {tmpdir},
                        !.dirs = ListRemove(T.dirs, tmpdir),
                        !.done = T.done \cup {tmpdir}]
         ELSE [T EXCEPT !.done = T.done \cup {tmpdir}]

rmtree(T, tmpdir, fails) ==
    IF ~T.ok THEN T
    ELSE IF tmpdir \in T.disk /\ tmpdir \in fails THEN [T EXCEPT !.ok = FALSE]
    ELSE [T EXCEPT !.disk = T.disk \ {tmpdir},
                   !.dirs = IF tmpdir \in SeqSet(T.dirs)
                            THEN ListRemove(T.dirs, tmpdir) ELSE T.dirs,
                   !.done = T.done \cup {tmpdir}]

\* the loop of cleanup over the copy self.dirs[:]; bool(self) is True, the
\* class defines neither __bool__ nor __len__
RECURSIVE CleanupLoop(_, _, _)
CleanupLoop(T, copy, fails) ==
    IF copy = <<>> THEN T
    ELSE CleanupLoop(rmtree(T, Head(copy), fails), Tail(copy), fails)

\* TempDirs.cleanup(): the loop, then self.dirs = [] unless rmtree raised
cleanup(T, fails) ==
    LET after == CleanupLoop(T, T.dirs, fails)
    IN  IF after.ok THEN [after EXCEPT !.dirs = <<>>] ELSE after

Now == [dirs |-> dirs, disk |-> disk, ok |-> TRUE, done |-> {}]

NoTempCall == [op |-> "none", result |-> "ok", absent |-> 0]

\* how many tracked directories are not on disk
AbsentTracked == Cardinality(SeqSet(dirs) \ disk)

InitTemp ==
    /\ dirs = <<>>
    /\ disk \in {{}, {Foreign}}
    /\ scratch \in BOOLEAN
    /\ made = 0
    /\ returned = {}
    /\ swept = {}
    /\ tlast = NoTempCall
    /\ IdlePerm /\ IdleJson /\ IdleCopy

\* TempDirs.__call__(prefix)
Call ==
    LET tmpdir == TempName(IF scratch THEN cctmp ELSE DefaultTmp, made + 1) IN
    /\ made < MaxDirs
    /\ made' = made + 1
    /\ disk' = disk \cup {tmpdir}
    /\ dirs' = Append(dirs, tmpdir)
    /\ returned' = returned \cup {tmpdir}
    /\ tlast' = [op |-> "call", result |-> "ok", absent |-> AbsentTracked]
    /\ UNCHANGED <<scratch, swept, permVars, jsonVars, copyVars>>

\* a caller's TempDirs.rmtree(tmpdir)
Rmtree ==
    \E tmpdir \in returned \cup {Foreign} : \E fails \in {{}, {tmpdir}} :
        LET T == rmtree(Now, tmpdir, fails) IN
        /\ dirs' = T.dirs
        /\ disk' = T.disk
        /\ swept' = swept \cup T.done
        /\ tlast' = [op |-> "rmtree", result |-> IF T.ok THEN "ok" ELSE "error",
                     absent |-> AbsentTracked]
        /\ UNCHANGED <<scratch, made, returned, permVars, jsonVars, copyVars>>

\* a caller's TempDirs.cleanup()
Cleanup ==
    \E fails \in {{}} \cup {{d} : d \in SeqSet(dirs) \cap disk} :
        LET T == cleanup(Now, fails) IN
        /\ dirs' = T.dirs
        /\ disk' = T.disk
        /\ swept' = swept \cup T.done
        /\ tlast' = [op |-> "cleanup", result |-> IF T.ok THEN "ok" ELSE "error",
                     absent |-> AbsentTracked]
        /\ UNCHANGED <<scratch, made, returned, permVars, jsonVars, copyVars>>

\* someone else deletes a temporary directory
DeletedExternally ==
    \E d \in disk :
        /\ disk' = disk \ {d}
        /\ tlast' = [op |-> "external", result |-> "ok", absent |-> AbsentTracked]
        /\ UNCHANGED <<dirs, scratch, made, returned, swept, permVars, jsonVars, copyVars>>

NextTemp ==
    \/ Call
    \/ Rmtree
    \/ Cleanup
    \/ DeletedExternally

SpecTemp == InitTemp /\ [][NextTemp]_vars

=============================================================================
